---- MODULE Spec2Model ----
(***************************************************************************)
(* ShieldAPI MCP server (src/src/index.ts): the bridge from a tool         *)
(* invocation to an HTTP request against the remote API, with the x402     *)
(* payment retry of Paid mode and the target classifier of full_scan.      *)
(*                                                                         *)
(* A JavaScript string is a sequence of one-character strings; a           *)
(* Record<string,string> is a function from key names to such sequences.   *)
(***************************************************************************)
EXTENDS Integers, Sequences, FiniteSets, TLC

VARIABLES
    SHIELDAPI_URL,                 \* process.env.SHIELDAPI_URL or its default
    SHIELDAPI_WALLET_PRIVATE_KEY,  \* process.env.SHIELDAPI_WALLET_PRIVATE_KEY
    demoMode,                      \* const demoMode
    paymentFetch,                  \* let paymentFetch: the installed transport
    mainPc,                        \* where main() stands
    mainStep,                      \* the index in mainSteps of the step main() is at
    connected,                     \* server.connect() resolved: invocations are accepted
    exitCode,                      \* the status process.exit was called with, -1 while alive
    installs,                      \* how many times paymentFetch was assigned
    calls,                         \* per slot, its latest invocation: in flight or settled
    target,                        \* the classifier's input (SpecDetect)
    detected                       \* the classifier's output, <<>> before it ran (SpecDetect)

vars == <<SHIELDAPI_URL, SHIELDAPI_WALLET_PRIVATE_KEY, demoMode, paymentFetch,
          mainPc, mainStep, connected, exitCode, installs, calls, target, detected>>

procVars == <<SHIELDAPI_URL, SHIELDAPI_WALLET_PRIVATE_KEY, demoMode, paymentFetch,
              mainPc, mainStep, connected, exitCode, installs, calls>>

(***************************************************************************)
(* Bounds of the model.                                                    *)
(***************************************************************************)
\* Longest string over Alphabet the classifier is run on.
MaxLen == 7
\* Tool handlers that may be in flight at the same time.
MaxInFlight == 2
\* How far past the 200-character cut the longest response body reaches.
MaxExtra == 2

(***************************************************************************)
(* Strings.                                                                *)
(***************************************************************************)
Digits == {"0", "1", "2", "3", "4", "5", "6", "7", "8", "9"}

\* String.prototype.includes for a one-character needle.
Includes(s, c) == \E i \in 1..Len(s) : s[i] = c

\* String.prototype.startsWith.
StartsWith(s, p) == Len(s) >= Len(p) /\ SubSeq(s, 1, Len(p)) = p

\* String.prototype.substring(0, n).
Substring0(s, n) == SubSeq(s, 1, IF Len(s) < n THEN Len(s) ELSE n)

HttpPrefix  == <<"h", "t", "t", "p", ":", "/", "/">>
HttpsPrefix == <<"h", "t", "t", "p", "s", ":", "/", "/">>

(***************************************************************************)
(* /^\d+\.\d+\.\d+\.\d+$/ as the automaton the pattern denotes: states 0,  *)
(* 2, 4, 6 want the first digit of a group, 1, 3, 5, 7 are inside a group, *)
(* 8 is the dead state, 7 accepts at the end of the input.                 *)
(***************************************************************************)
ReStep(q, c) ==
    IF q = 8 THEN 8
    ELSE IF q % 2 = 0 THEN (IF c \in Digits THEN q + 1 ELSE 8)
    ELSE IF c \in Digits THEN q
    ELSE IF c = "." /\ q < 7 THEN q + 1
    ELSE 8

RECURSIVE ReRun(_, _, _)
ReRun(s, i, q) == IF i > Len(s) THEN q ELSE ReRun(s, i + 1, ReStep(q, s[i]))

Ipv4RegexTest(s) == ReRun(s, 1, 0) = 7

(***************************************************************************)
(* detectTargetType: ordered rules, the first that matches decides.        *)
(***************************************************************************)
detectTargetType_UrlFirst(t) ==
    IF StartsWith(t, HttpPrefix) \/ StartsWith(t, HttpsPrefix) THEN "url" :> t
    ELSE IF Includes(t, "@") THEN "email" :> t
    ELSE IF Ipv4RegexTest(t) THEN "ip" :> t
    ELSE "domain" :> t

detectTargetType(t) ==
    IF Includes(t, "@") THEN "email" :> t
    ELSE IF Ipv4RegexTest(t) THEN "ip" :> t
    ELSE IF StartsWith(t, HttpPrefix) \/ StartsWith(t, HttpsPrefix) THEN "url" :> t
    ELSE "domain" :> t

(***************************************************************************)
(* The classifier on its own: every string over Alphabet up to MaxLen,     *)
(* bare and behind each prefix, and the strings of the unit tests.         *)
(***************************************************************************)
Alphabet == {"1", ".", "@", "a"}

StringsUpTo(n) == UNION {[1..k -> Alphabet] : k \in 0..n}

Prefixes == {<<>>, HttpPrefix, HttpsPrefix}

TestTargets ==
    { <<"u", "s", "e", "r", "@", "e", "x", ".", "c", "o", "m">>,
      <<"8", ".", "8", ".", "8", ".", "8">>,
      <<"1", "9", "2", ".", "1", "6", "8", ".", "1", ".", "1">>,
      <<"9", "9", "9", ".", "9", "9", "9", ".", "9", "9", "9", ".", "9", "9", "9">>,
      <<"8", ".", "8", ".", "8">>,
      <<"e", "x", ".", "c", "o", "m">>,
      <<"1", ".", "1", ".", "1", ".", "1", "\n">>,
      <<"1", ".", "1", ".", "1", ".", "1", ".", "1">>,
      <<"h", "t", "t", "p", ":", "/", "a">>,
      <<"H", "t", "t", "p", ":", "/", "/", "a">>,
      <<"a", "h", "t", "t", "p", ":", "/", "/">> }

DetectTargets == {p \o s : p \in Prefixes, s \in StringsUpTo(MaxLen)} \cup TestTargets

InitDetect ==
    /\ target \in DetectTargets
    /\ detected = <<>>
    /\ SHIELDAPI_URL = "https://shield.vainplex.dev"
    /\ SHIELDAPI_WALLET_PRIVATE_KEY = "unset"
    /\ demoMode = TRUE
    /\ paymentFetch = "fetch"
    /\ mainPc = "init"
    /\ mainStep = 1
    /\ connected = FALSE
    /\ exitCode = -1
    /\ installs = 0
    /\ calls = [i \in 1..MaxInFlight |-> [phase |-> "idle"]]

Classify ==
    /\ detected = <<>>
    /\ detected' = <<detectTargetType(target)>>
    /\ UNCHANGED <<target, procVars>>

NextDetect == Classify

SpecDetect == InitDetect /\ [][NextDetect]_vars

(***************************************************************************)
(* C5, stated without the automaton: the shape of an IPv4-like string is   *)
(* three dots cutting the string into four non-empty runs of digits.       *)
(***************************************************************************)
AllDigits(s, a, b) == a <= b /\ \A i \in a..b : s[i] \in Digits

FourDigitGroups(s) ==
    \E i \in 1..Len(s), j \in 1..Len(s), k \in 1..Len(s) :
        /\ i < j /\ j < k
        /\ s[i] = "." /\ s[j] = "." /\ s[k] = "."
        /\ AllDigits(s, 1, i - 1) /\ AllDigits(s, i + 1, j - 1)
        /\ AllDigits(s, j + 1, k - 1) /\ AllDigits(s, k + 1, Len(s))

HasAt(s) == \E i \in DOMAIN s : s[i] = "@"

HasHttpScheme(s) ==
    \/ Len(s) >= 7 /\ \A i \in 1..7 : s[i] = HttpPrefix[i]
    \/ Len(s) >= 8 /\ \A i \in 1..8 : s[i] = HttpsPrefix[i]

ExpectedKey(s) ==
    CASE HasAt(s) -> "email"
      [] ~HasAt(s) /\ FourDigitGroups(s) -> "ip"
      [] ~HasAt(s) /\ ~FourDigitGroups(s) /\ HasHttpScheme(s) -> "url"
      [] OTHER -> "domain"

\* C5: detectTargetType returns exactly one key, holding the input unmodified;
\* the key is email for a string with '@', else ip for four dot-separated
\* groups of digits (no range check), else url for an http:// or https://
\* prefix, else domain (the empty string included).
C5_Classification ==
    detected # <<>> =>
        /\ DOMAIN detected[1] = {ExpectedKey(target)}
        /\ detected[1][ExpectedKey(target)] = target
        /\ (target = <<"9", "9", "9", ".", "9", "9", "9", ".", "9", "9", "9", ".", "9", "9", "9">>
                => DOMAIN detected[1] = {"ip"})
        /\ (target = <<"8", ".", "8", ".", "8">> => DOMAIN detected[1] = {"domain"})
        /\ (target = <<>> => DOMAIN detected[1] = {"domain"})

\* An address that is both URL-shaped and carries '@' was classified: email wins.
C5_Witness ==
    /\ detected # <<>>
    /\ target = HttpPrefix \o <<"a", "@", "1", ".", "1">>
    /\ detected[1] = ("email" :> target)

(***************************************************************************)
(* JSON values, as response.json() returns them: a tag t and a payload v.  *)
(* An array is a sequence of values, an object a sequence of members in    *)
(* property order.                                                         *)
(***************************************************************************)
JNull       == [t |-> "null", v |-> 0]
JBool(b)    == [t |-> "bool", v |-> b]
JNum(n)     == [t |-> "num", v |-> n]
JStr(s)     == [t |-> "str", v |-> s]
JArr(a)     == [t |-> "arr", v |-> a]
JObj(m)     == [t |-> "obj", v |-> m]
Member(k, x) == [k |-> k, v |-> x]

DigitSeq == <<"0", "1", "2", "3", "4", "5", "6", "7", "8", "9">>

RECURSIVE NatToString(_)
NatToString(n) ==
    IF n < 10 THEN <<DigitSeq[n + 1]>>
    ELSE NatToString(n \div 10) \o <<DigitSeq[(n % 10) + 1]>>

NumberToString(n) == IF n < 0 THEN <<"-">> \o NatToString(-n) ELSE NatToString(n)

\* JSON.stringify's Quote(): the quotation mark and the reverse solidus are
\* escaped, a line feed becomes \n.
QuoteChar(c) ==
    CASE c = "\"" -> <<"\\", "\"">>
      [] c = "\\" -> <<"\\", "\\">>
      [] c = "\n" -> <<"\\", "n">>
      [] OTHER -> <<c>>

RECURSIVE QuoteBody(_)
QuoteBody(s) == IF s = <<>> THEN <<>> ELSE QuoteChar(Head(s)) \o QuoteBody(Tail(s))

Quote(s) == <<"\"">> \o QuoteBody(s) \o <<"\"">>

RECURSIVE Spaces(_)
Spaces(n) == IF n <= 0 THEN <<>> ELSE <<" ">> \o Spaces(n - 1)

\* The gap of JSON.stringify(data, null, 2).
IndentGap == 2

RECURSIVE Serialize(_, _), SerializeItems(_, _, _)
\* SerializeJSONProperty with the current indentation ind.
Serialize(x, ind) ==
    CASE x.t = "null" -> <<"n", "u", "l", "l">>
      [] x.t = "bool" -> IF x.v THEN <<"t", "r", "u", "e">> ELSE <<"f", "a", "l", "s", "e">>
      [] x.t = "num"  -> NumberToString(x.v)
      [] x.t = "str"  -> Quote(x.v)
      [] x.t = "arr"  ->
            IF x.v = <<>> THEN <<"[", "]">>
            ELSE <<"[", "\n">> \o SerializeItems(x, 1, ind + IndentGap)
                     \o <<"\n">> \o Spaces(ind) \o <<"]">>
      [] x.t = "obj"  ->
            IF x.v = <<>> THEN <<"{", "}">>
            ELSE <<"{", "\n">> \o SerializeItems(x, 1, ind + IndentGap)
                     \o <<"\n">> \o Spaces(ind) \o <<"}">>

\* The elements (or members) of x from the i-th on, each on its own line.
SerializeItems(x, i, ind) ==
    LET item == x.v[i]
        text == IF x.t = "arr" THEN Serialize(item, ind)
                ELSE Quote(item.k) \o <<":", " ">> \o Serialize(item.v, ind)
    IN  Spaces(ind) \o text \o
        (IF i = Len(x.v) THEN <<>> ELSE <<",", "\n">> \o SerializeItems(x, i + 1, ind))

JSONstringify(data) == Serialize(data, 0)

(***************************************************************************)
(* formatResult: one text block holding JSON.stringify(data, null, 2).     *)
(***************************************************************************)
formatResult(data) == [content |-> <<[type |-> "text", text |-> JSONstringify(data)]>>]

(***************************************************************************)
(* JSON.parse (response.json() on the body text): a recursive-descent      *)
(* parser. A result is [ok, v, i]: the value read and the position after   *)
(* it.                                                                     *)
(***************************************************************************)
ParseFail == [ok |-> FALSE, v |-> JNull, i |-> 0]
Parsed(x, i) == [ok |-> TRUE, v |-> x, i |-> i]

IsWs(c) == c \in {" ", "\n", "\t", "\r"}

RECURSIVE SkipWs(_, _)
SkipWs(s, i) == IF i <= Len(s) /\ IsWs(s[i]) THEN SkipWs(s, i + 1) ELSE i

Matches(s, i, lit) == i + Len(lit) - 1 <= Len(s) /\ SubSeq(s, i, i + Len(lit) - 1) = lit

DigitValue(c) == CHOOSE d \in 0..9 : DigitSeq[d + 1] = c

RECURSIVE ParseDigits(_, _, _)
ParseDigits(s, i, acc) ==
    IF i <= Len(s) /\ s[i] \in Digits
    THEN ParseDigits(s, i + 1, acc * 10 + DigitValue(s[i]))
    ELSE Parsed(acc, i)

ParseNumber(s, i) ==
    LET neg == s[i] = "-"
        j   == IF neg THEN i + 1 ELSE i
    IN  IF j > Len(s) \/ s[j] \notin Digits THEN ParseFail
        ELSE IF s[j] = "0" /\ j < Len(s) /\ s[j + 1] \in Digits THEN ParseFail
        ELSE LET r == ParseDigits(s, j, 0)
             IN  Parsed(JNum(IF neg THEN -r.v ELSE r.v), r.i)

RECURSIVE ParseChars(_, _, _)
\* The characters of a string literal after its opening quotation mark.
ParseChars(s, i, acc) ==
    IF i > Len(s) THEN ParseFail
    ELSE IF s[i] = "\"" THEN Parsed(acc, i + 1)
    ELSE IF s[i] = "\n" THEN ParseFail
    ELSE IF s[i] = "\\" THEN
        IF i + 1 > Len(s) THEN ParseFail
        ELSE IF s[i + 1] \in {"\"", "\\", "/"} THEN ParseChars(s, i + 2, Append(acc, s[i + 1]))
        ELSE IF s[i + 1] = "n" THEN ParseChars(s, i + 2, Append(acc, "\n"))
        ELSE ParseFail
    ELSE ParseChars(s, i + 1, Append(acc, s[i]))

RECURSIVE ParseValue(_, _), ParseElements(_, _, _), ParseMembers(_, _, _)
ParseValue(s, i0) ==
    LET i == SkipWs(s, i0) IN
    IF i > Len(s) THEN ParseFail
    ELSE IF Matches(s, i, <<"n", "u", "l", "l">>) THEN Parsed(JNull, i + 4)
    ELSE IF Matches(s, i, <<"t", "r", "u", "e">>) THEN Parsed(JBool(TRUE), i + 4)
    ELSE IF Matches(s, i, <<"f", "a", "l", "s", "e">>) THEN Parsed(JBool(FALSE), i + 5)
    ELSE IF s[i] = "\"" THEN
        LET r == ParseChars(s, i + 1, <<>>)
        IN  IF r.ok THEN Parsed(JStr(r.v), r.i) ELSE ParseFail
    ELSE IF s[i] = "-" \/ s[i] \in Digits THEN ParseNumber(s, i)
    ELSE IF s[i] = "[" THEN
        LET j == SkipWs(s, i + 1)
        IN  IF j <= Len(s) /\ s[j] = "]" THEN Parsed(JArr(<<>>), j + 1)
            ELSE ParseElements(s, j, <<>>)
    ELSE IF s[i] = "{" THEN
        LET j == SkipWs(s, i + 1)
        IN  IF j <= Len(s) /\ s[j] = "}" THEN Parsed(JObj(<<>>), j + 1)
            ELSE ParseMembers(s, j, <<>>)
    ELSE ParseFail

\* value (, value)* ]
ParseElements(s, i, acc) ==
    LET r == ParseValue(s, i) IN
    IF ~r.ok THEN ParseFail
    ELSE LET j == SkipWs(s, r.i) IN
         IF j > Len(s) THEN ParseFail
         ELSE IF s[j] = "]" THEN Parsed(JArr(Append(acc, r.v)), j + 1)
         ELSE IF s[j] = "," THEN ParseElements(s, j + 1, Append(acc, r.v))
         ELSE ParseFail

\* "key" : value (, "key" : value)* }
ParseMembers(s, i0, acc) ==
    LET i == SkipWs(s, i0) IN
    IF i > Len(s) \/ s[i] # "\"" THEN ParseFail
    ELSE LET k == ParseChars(s, i + 1, <<>>) IN
         IF ~k.ok THEN ParseFail
         ELSE LET c == SkipWs(s, k.i) IN
              IF c > Len(s) \/ s[c] # ":" THEN ParseFail
              ELSE LET r == ParseValue(s, c + 1) IN
                   IF ~r.ok THEN ParseFail
                   ELSE LET j == SkipWs(s, r.i) IN
                        IF j > Len(s) THEN ParseFail
                        ELSE IF s[j] = "}"
                            THEN Parsed(JObj(Append(acc, Member(k.v, r.v))), j + 1)
                        ELSE IF s[j] = ","
                            THEN ParseMembers(s, j + 1, Append(acc, Member(k.v, r.v)))
                        ELSE ParseFail

\* <<value>> when the whole text is one JSON value, <<>> when it is not
\* (JSON.parse throws a SyntaxError).
JSONparse(s) ==
    LET r == ParseValue(s, 1)
    IN  IF r.ok /\ SkipWs(s, r.i) > Len(s) THEN <<r.v>> ELSE <<>>

\* Response bodies as a server writes them: compact JSON texts.
JsonBodies ==
    { <<"n", "u", "l", "l">>,
      <<"4", "2">>,
      <<"\"", "a", "\\", "\"", "\\", "\\", "\\", "n", " ", "{", "\"">>,
      <<"[", "1", ",", "-", "2", ",", " ", "3", "]">>,
      <<"{", "\"", "r", "i", "s", "k", "\"", ":", "4", "2", "}">>,
      <<"{", "\"", "a", "\"", ":", "[", "t", "r", "u", "e", ",", "n", "u", "l", "l", ",",
        "{", "}", "]", ",", "\n", "\"", "b", "\\", "\"", "\"", ":", "{", "\"", "c", "\"",
        ":", "\"", "\"", "}", "}">> }

(***************************************************************************)
(* The tool table and the parameter set each handler passes on.            *)
(***************************************************************************)
TOOLS ==
    [ check_url            |-> [param |-> "url",    endpoint |-> "check-url"],
      check_password       |-> [param |-> "hash",   endpoint |-> "check-password"],
      check_password_range |-> [param |-> "prefix", endpoint |-> "check-password-range"],
      check_domain         |-> [param |-> "domain", endpoint |-> "check-domain"],
      check_ip             |-> [param |-> "ip",     endpoint |-> "check-ip"],
      check_email          |-> [param |-> "email",  endpoint |-> "check-email"] ]

ToolNames == DOMAIN TOOLS \cup {"full_scan"}

\* The one parameter a tool declares to the hosting transport.
declaredParam(tool) == IF tool = "full_scan" THEN "target" ELSE TOOLS[tool].param

toolEndpoint(tool) == IF tool = "full_scan" THEN "full-scan" ELSE TOOLS[tool].endpoint

fullScanParams_Raw(t) == "target" :> t

\* full_scan: callShieldApi('full-scan', detectTargetType(target)).
fullScanParams(t) == detectTargetType(t)

\* An ordinary tool: callShieldApi(endpoint, { param }).
toolParams(tool, args) ==
    IF tool = "full_scan" THEN fullScanParams(args["target"])
    ELSE TOOLS[tool].param :> args[TOOLS[tool].param]

(***************************************************************************)
(* The request URL. url.toString() is a sequence of tokens: the origin,    *)
(* "/api/", the endpoint and the key names are single tokens, a value is   *)
(* its characters as the application/x-www-form-urlencoded serializer      *)
(* writes them.                                                            *)
(***************************************************************************)
Letters ==
    {"a", "b", "c", "d", "e", "f", "g", "h", "i", "j", "k", "l", "m", "n", "o", "p", "q",
     "r", "s", "t", "u", "v", "w", "x", "y", "z", "A", "B", "C", "D", "E", "F", "H"}

Unreserved == Letters \cup Digits \cup {"*", "-", ".", "_"}

PercentCode ==
    [c \in {"@", ":", "/", "&", "=", "?", "#", "%", "+", "\n"} |->
        CASE c = "@"  -> <<"%", "4", "0">>
          [] c = ":"  -> <<"%", "3", "A">>
          [] c = "/"  -> <<"%", "2", "F">>
          [] c = "&"  -> <<"%", "2", "6">>
          [] c = "="  -> <<"%", "3", "D">>
          [] c = "?"  -> <<"%", "3", "F">>
          [] c = "#"  -> <<"%", "2", "3">>
          [] c = "%"  -> <<"%", "2", "5">>
          [] c = "+"  -> <<"%", "2", "B">>
          [] c = "\n" -> <<"%", "0", "A">>]

EncodeChar(c) ==
    IF c \in Unreserved THEN <<c>>
    ELSE IF c = " " THEN <<"+">>
    ELSE PercentCode[c]

RECURSIVE EncodeValue(_)
EncodeValue(s) == IF s = <<>> THEN <<>> ELSE EncodeChar(Head(s)) \o EncodeValue(Tail(s))

RECURSIVE EntriesOf(_, _)
EntriesOf(m, keys) ==
    IF keys = {} THEN <<>>
    ELSE LET k == CHOOSE x \in keys : TRUE
         IN  <<[k |-> k, v |-> m[k]]>> \o EntriesOf(m, keys \ {k})

\* Object.entries(params).
ObjectEntries(m) == EntriesOf(m, DOMAIN m)

\* URLSearchParams.set: the value of an existing name is replaced in place,
\* a new name is appended (the list never holds a name twice).
SearchSet(sp, k, v) ==
    IF \E i \in 1..Len(sp) : sp[i].k = k
    THEN [i \in 1..Len(sp) |-> IF sp[i].k = k THEN [k |-> k, v |-> v] ELSE sp[i]]
    ELSE Append(sp, [k |-> k, v |-> v])

RECURSIVE SetAll(_, _)
SetAll(sp, entries) ==
    IF entries = <<>> THEN sp
    ELSE SetAll(SearchSet(sp, Head(entries).k, Head(entries).v), Tail(entries))

RECURSIVE SerializeSearch(_, _)
SerializeSearch(sp, i) ==
    IF i > Len(sp) THEN <<>>
    ELSE (IF i > 1 THEN <<"&">> ELSE <<>>)
         \o <<sp[i].k, "=">> \o EncodeValue(sp[i].v) \o SerializeSearch(sp, i + 1)

TrueText == <<"t", "r", "u", "e">>

\* The URL callShieldApi builds (the test file's buildUrl).
buildUrl(base, endpoint, params, demo) ==
    LET set == SetAll(<<>>, ObjectEntries(params))
        sp  == IF demo THEN SearchSet(set, "demo", TrueText) ELSE set
    IN  <<base, "/api/", endpoint>>
        \o (IF sp = <<>> THEN <<>> ELSE <<"?">> \o SerializeSearch(sp, 1))

DemoFlagSet_Always == TRUE

\* if (demoMode) url.searchParams.set('demo', 'true')
DemoFlagSet == demoMode

(***************************************************************************)
(* callShieldApi after the transport settled.                              *)
(***************************************************************************)
\* body.substring(0, 200)
BodyLimit == 200

ErrorBody_Whole(body) == body

ErrorBody(body) == Substring0(body, BodyLimit)

Return(x) == [ok |-> TRUE, value |-> x]
Throw(e)  == [ok |-> FALSE, error |-> e]

\* new Error(`ShieldAPI ${endpoint} failed (${response.status}): ${...}`)
ApiFailure(endpoint, status, text) ==
    [name |-> "Error", fmt |-> "ShieldAPI %s failed (%d): %s",
     endpoint |-> endpoint, status |-> status, body |-> text]

\* What response.json() rejects with for a body that is no JSON text.
JsonSyntaxError ==
    [name |-> "SyntaxError", fmt |-> "Unexpected token", endpoint |-> "", status |-> 0, body |-> <<>>]

\* What fetch rejects with when no response arrives.
NetworkFailure ==
    [name |-> "TypeError", fmt |-> "fetch failed", endpoint |-> "", status |-> 0, body |-> <<>>]

\* What the payment transport rejects with when no authorization can be produced.
PaymentFailure ==
    [name |-> "Error", fmt |-> "Failed to create payment payload", endpoint |-> "",
     status |-> 0, body |-> <<>>]

\* response.ok
ResponseOk(r) == r.status >= 200 /\ r.status <= 299

\* Lines 63-67: the transport resolved with response r.
callShieldApiSettle(endpoint, r) ==
    IF ~ResponseOk(r) THEN Throw(ApiFailure(endpoint, r.status, ErrorBody(r.body)))
    ELSE LET j == JSONparse(r.body)
         IN  IF j = <<>> THEN Throw(JsonSyntaxError) ELSE Return(j[1])

callShieldApiReject_Wrapped(endpoint, e) == Throw(ApiFailure(endpoint, e.status, e.body))

\* Line 62: the transport rejected with e; there is no try/catch around the await.
callShieldApiReject(endpoint, e) == Throw(e)

toolHandler_Swallow(r) ==
    IF r.ok THEN [ok |-> TRUE, reply |-> formatResult(r.value)]
    ELSE [ok |-> TRUE, reply |-> formatResult(JStr(<<"e", "r", "r", "o", "r">>))]

\* async (...) => formatResult(await callShieldApi(...)): a rejection passes through.
toolHandler(r) ==
    IF r.ok THEN [ok |-> TRUE, reply |-> formatResult(r.value)] ELSE r

(***************************************************************************)
(* The transports. "fetch" is the platform's fetch; "wrapped" is           *)
(* wrapFetchWithPayment(fetch, client): a payment-required response to the *)
(* first request is answered by deriving an authorization and issuing the  *)
(* request once more; any other response, and every response to the retry, *)
(* is handed back.                                                         *)
(***************************************************************************)
PaymentRequired == 402

\* "sign": derive the authorization and retry; "final": hand the response back.
wrappedOnResponse(phase, r) ==
    IF phase = "first" /\ r.status = PaymentRequired THEN "sign" ELSE "final"

TransportCalled_Wrapped == "wrapped"

\* const response = await paymentFetch(url.toString())
TransportCalled == paymentFetch

transportOnResponse(transport, phase, r) ==
    IF transport = "wrapped" THEN wrappedOnResponse(phase, r) ELSE "final"

(***************************************************************************)
(* Start-up: main() awaits initPaymentFetch(), then server.connect().      *)
(***************************************************************************)
\* const demoMode = !SHIELDAPI_WALLET_PRIVATE_KEY
Falsy(key) == key \in {"unset", "empty"}

mainSteps_ConnectFirst == <<"connect", "init">>

\* The awaited steps of main(), in order.
mainSteps == <<"init", "connect">>

InstalledTransport_Unwrapped == "fetch"

\* paymentFetch = wrapFetchWithPayment(fetch, client)
InstalledTransport == "wrapped"

OnInitFailure_Swallowed == "advance"

\* A rejection of initPaymentFetch() leaves main() through its await and
\* reaches main().catch.
OnInitFailure == "fatal"

\* process.exit(1)
FatalExitCode == 1

Alive == exitCode = -1

Idle == [phase |-> "idle"]

StepPc(k) == IF k > Len(mainSteps) THEN "running" ELSE mainSteps[k]

envVars == <<SHIELDAPI_URL, SHIELDAPI_WALLET_PRIVATE_KEY, demoMode>>
mainVars == <<mainPc, mainStep, connected, exitCode>>
pureVars == <<target, detected>>

Advance ==
    /\ mainStep' = mainStep + 1
    /\ mainPc' = StepPc(mainStep + 1)

InitFailed ==
    IF OnInitFailure = "fatal"
    THEN mainPc' = "fatal" /\ mainStep' = mainStep
    ELSE Advance

\* initPaymentFetch: if (demoMode) return
InitSkip ==
    /\ Alive /\ mainPc = "init" /\ demoMode
    /\ Advance
    /\ UNCHANGED <<envVars, paymentFetch, connected, exitCode, installs, calls, pureVars>>

\* initPaymentFetch in Paid mode: the dynamic imports are awaited.
InitBegin ==
    /\ Alive /\ mainPc = "init" /\ ~demoMode
    /\ mainPc' = "import"
    /\ UNCHANGED <<envVars, paymentFetch, mainStep, connected, exitCode, installs, calls,
                   pureVars>>

\* One of the await import(...) rejects.
ImportFail ==
    /\ Alive /\ mainPc = "import"
    /\ InitFailed
    /\ UNCHANGED <<envVars, paymentFetch, connected, exitCode, installs, calls, pureVars>>

\* privateKeyToAccount throws on a credential that is no private key.
InitThrow ==
    /\ Alive /\ mainPc = "import" /\ SHIELDAPI_WALLET_PRIVATE_KEY # "valid"
    /\ InitFailed
    /\ UNCHANGED <<envVars, paymentFetch, connected, exitCode, installs, calls, pureVars>>

\* The signer and the client are built and the payment transport is installed.
InitInstall ==
    /\ Alive /\ mainPc = "import" /\ SHIELDAPI_WALLET_PRIVATE_KEY = "valid"
    /\ paymentFetch' = InstalledTransport
    /\ installs' = installs + 1
    /\ Advance
    /\ UNCHANGED <<envVars, connected, exitCode, calls, pureVars>>

\* await server.connect(transport)
ConnectOk ==
    /\ Alive /\ mainPc = "connect"
    /\ connected' = TRUE
    /\ Advance
    /\ UNCHANGED <<envVars, paymentFetch, exitCode, installs, calls, pureVars>>

ConnectFail ==
    /\ Alive /\ mainPc = "connect"
    /\ mainPc' = "fatal"
    /\ UNCHANGED <<envVars, paymentFetch, mainStep, connected, exitCode, installs, calls,
                   pureVars>>

\* main().catch: console.error('Fatal:', err); process.exit(1)
Exit ==
    /\ Alive /\ mainPc = "fatal"
    /\ exitCode' = FatalExitCode
    /\ mainPc' = "exited"
    /\ UNCHANGED <<envVars, paymentFetch, mainStep, connected, installs, calls, pureVars>>

(***************************************************************************)
(* A tool invocation. The handler runs to its first await: it maps the     *)
(* arguments, builds the URL and calls the installed transport, which      *)
(* issues the first request.                                               *)
(***************************************************************************)
Invoke(i, tools, values) ==
    /\ Alive /\ connected /\ calls[i].phase \in {"idle", "settled"}
    /\ \E tool \in tools, v \in values :
         LET args     == declaredParam(tool) :> v
             params   == toolParams(tool, args)
             endpoint == toolEndpoint(tool)
             url      == buildUrl(SHIELDAPI_URL, endpoint, params, DemoFlagSet)
         IN  calls' = [calls EXCEPT ![i] =
                 [phase |-> "first", tool |-> tool, args |-> args, endpoint |-> endpoint,
                  params |-> params, transport |-> TransportCalled,
                  reqs |-> <<[url |-> url, auth |-> FALSE]>>, resps |-> <<>>]]
    /\ UNCHANGED <<envVars, paymentFetch, mainVars, installs, pureVars>>

\* The handler of slot i settles: its promise resolves with a Reply or rejects.
Settle(i, resps, final, cause, result) ==
    calls' = [calls EXCEPT ![i] =
        [phase |-> "settled", tool |-> @.tool, args |-> @.args, endpoint |-> @.endpoint,
         params |-> @.params, transport |-> @.transport, reqs |-> @.reqs,
         resps |-> resps, final |-> final, cause |-> cause,
         outcome |-> toolHandler(result)]]

\* A response to the request in flight arrives.
Respond(i, responses) ==
    /\ Alive /\ calls[i].phase \in {"first", "retry"}
    /\ \E r \in responses :
         IF transportOnResponse(calls[i].transport, calls[i].phase, r) = "sign"
         THEN calls' = [calls EXCEPT ![i].phase = "signing",
                                     ![i].resps = Append(@, r.status)]
         ELSE Settle(i, Append(calls[i].resps, r.status), <<r>>, "response",
                     callShieldApiSettle(calls[i].endpoint, r))
    /\ UNCHANGED <<envVars, paymentFetch, mainVars, installs, pureVars>>

\* The request in flight fails below HTTP: fetch rejects.
NetFail(i) ==
    /\ Alive /\ calls[i].phase \in {"first", "retry"}
    /\ Settle(i, calls[i].resps, <<>>, "network",
              callShieldApiReject(calls[i].endpoint, NetworkFailure))
    /\ UNCHANGED <<envVars, paymentFetch, mainVars, installs, pureVars>>

\* The signing capability produced the authorization: the request is issued
\* once more, with the authorization attached.
SignOk(i) ==
    /\ Alive /\ calls[i].phase = "signing"
    /\ calls' = [calls EXCEPT ![i].phase = "retry",
                              ![i].reqs = Append(@, [url |-> @[1].url, auth |-> TRUE])]
    /\ UNCHANGED <<envVars, paymentFetch, mainVars, installs, pureVars>>

\* The signing capability could not produce the authorization.
SignFail(i) ==
    /\ Alive /\ calls[i].phase = "signing"
    /\ Settle(i, calls[i].resps, <<>>, "payment",
              callShieldApiReject(calls[i].endpoint, PaymentFailure))
    /\ UNCHANGED <<envVars, paymentFetch, mainVars, installs, pureVars>>

(***************************************************************************)
(* The process: every environment, every interleaving of MaxInFlight       *)
(* handlers.                                                               *)
(***************************************************************************)
BaseUrls == {"https://shield.vainplex.dev", "http://localhost:3000"}

Keys == {"unset", "empty", "valid", "invalid"}

InitProcess ==
    /\ SHIELDAPI_URL \in BaseUrls
    /\ SHIELDAPI_WALLET_PRIVATE_KEY \in Keys
    /\ demoMode = Falsy(SHIELDAPI_WALLET_PRIVATE_KEY)
    /\ paymentFetch = "fetch"
    /\ mainStep = 1
    /\ mainPc = StepPc(1)
    /\ connected = FALSE
    /\ exitCode = -1
    /\ installs = 0
    /\ calls = [i \in 1..MaxInFlight |-> Idle]
    /\ target = <<>>
    /\ detected = <<>>

Startup ==
    \/ InitSkip
    \/ InitBegin
    \/ ImportFail
    \/ InitThrow
    \/ InitInstall
    \/ ConnectOk
    \/ ConnectFail
    \/ Exit

Tools == {"check_url", "full_scan"}

Values == { <<"a", "@", "b">> }

Responses ==
    { [status |-> 200, body |-> <<"n", "u", "l", "l">>],
      [status |-> 200, body |-> <<"<", "!">>],
      [status |-> PaymentRequired, body |-> <<"p", "a", "y">>],
      [status |-> 500, body |-> <<"n", "o">>] }

Slots == 1..MaxInFlight

Next ==
    \/ Startup
    \/ \E i \in Slots : Invoke(i, Tools, Values)
    \/ \E i \in Slots : Respond(i, Responses)
    \/ \E i \in Slots : NetFail(i)
    \/ \E i \in Slots : SignOk(i)
    \/ \E i \in Slots : SignFail(i)

Spec == InitProcess /\ [][Next]_vars

\* The rejection handler of main().catch is a microtask: once start-up has
\* failed, it runs.
FairSpec == Spec /\ WF_vars(Exit)

(***************************************************************************)
(* The same process with every tool, argument values that exercise the     *)
(* classifier and the query encoding, and responses that exercise the body *)
(* cut and the JSON round trip. Invocations are delivered one at a time:   *)
(* a handler reads nothing another handler writes (C10, under Spec).       *)
(***************************************************************************)
DataValues ==
    { <<"u", "@", "e", "x", ".", "c", "o", "m">>,
      <<"8", ".", "8", ".", "8", ".", "8">>,
      <<"9", "9", "9", ".", "9", "9", "9", ".", "9", "9", "9", ".", "9", "9", "9">>,
      HttpsPrefix \o <<"e", ".", "c", "o", "/", "p", "?", "x", "=", "1", "&", "y", "=", "2", "#", "f">>,
      HttpPrefix \o <<"a", "@", "b">>,
      <<"e", "x", ".", "c", "o", "m">>,
      <<"A", "A", "B", "B", "C", "C">>,
      <<"a", " ", "b", "+", "c", "%", "4", "0">>,
      <<>> }

\* A body of n characters, no two neighbours alike.
BodyOfLen(n) == [i \in 1..n |-> DigitSeq[(i % 10) + 1]]

BodyLens == {0, 1, BodyLimit - 1, BodyLimit, BodyLimit + 1, BodyLimit + MaxExtra}

ErrorBodies == {BodyOfLen(n) : n \in BodyLens}

DataResponses ==
    {[status |-> 200, body |-> b] : b \in JsonBodies}
    \cup { [status |-> 200, body |-> <<"<", "h", "t", "m", "l", ">">>],
           [status |-> 204, body |-> <<>>],
           [status |-> 299, body |-> <<"[", "1", ",", "{", "\"", "a", "\"", ":", "n", "u", "l", "l", "}", "]">>] }
    \cup {[status |-> st, body |-> b] : st \in {PaymentRequired, 404, 500}, b \in ErrorBodies}
    \cup { [status |-> 300, body |-> <<>>], [status |-> 199, body |-> <<>>] }

DataSlots == {1}

NextData ==
    \/ Startup
    \/ \E i \in DataSlots : Invoke(i, ToolNames, DataValues)
    \/ \E i \in DataSlots : Respond(i, DataResponses)
    \/ \E i \in DataSlots : NetFail(i)
    \/ \E i \in DataSlots : SignOk(i)
    \/ \E i \in DataSlots : SignFail(i)

SpecData == InitProcess /\ [][NextData]_vars

(***************************************************************************)
(* What the claims read: the invocations a state holds, and a request URL  *)
(* as the remote API parses it.                                            *)
(***************************************************************************)
Started == {calls[i] : i \in {j \in Slots : calls[j].phase # "idle"}}

Settled == {c \in Started : c.phase = "settled"}

FirstIndex(s, x) ==
    IF \E i \in 1..Len(s) : s[i] = x
    THEN CHOOSE i \in 1..Len(s) : s[i] = x /\ \A j \in 1..(i - 1) : s[j] # x
    ELSE 0

RECURSIVE SplitOn(_, _, _, _)
SplitOn(s, sep, i, cur) ==
    IF i > Len(s) THEN <<cur>>
    ELSE IF s[i] = sep THEN <<cur>> \o SplitOn(s, sep, i + 1, <<>>)
    ELSE SplitOn(s, sep, i + 1, Append(cur, s[i]))

RECURSIVE PercentDecode(_)
PercentDecode(s) ==
    IF s = <<>> THEN <<>>
    ELSE IF s[1] = "+" THEN <<" ">> \o PercentDecode(Tail(s))
    ELSE IF s[1] = "%" /\ Len(s) >= 3
            /\ \E c \in DOMAIN PercentCode : PercentCode[c] = SubSeq(s, 1, 3)
        THEN <<CHOOSE c \in DOMAIN PercentCode : PercentCode[c] = SubSeq(s, 1, 3)>>
             \o PercentDecode(SubSeq(s, 4, Len(s)))
    ELSE <<s[1]>> \o PercentDecode(Tail(s))

UrlPath(url) ==
    LET q == FirstIndex(url, "?") IN IF q = 0 THEN url ELSE SubSeq(url, 1, q - 1)

UrlQuery(url) ==
    LET q == FirstIndex(url, "?") IN IF q = 0 THEN <<>> ELSE SubSeq(url, q + 1, Len(url))

QueryPair(seg) ==
    LET e == FirstIndex(seg, "=")
    IN  IF e = 0 THEN [k |-> PercentDecode(seg), v |-> <<>>]
        ELSE [k |-> PercentDecode(SubSeq(seg, 1, e - 1)),
              v |-> PercentDecode(SubSeq(seg, e + 1, Len(seg)))]

\* The name/value pairs of the URL's query, decoded.
QueryPairs(url) ==
    LET q    == UrlQuery(url)
        segs == SplitOn(q, "&", 1, <<>>)
    IN  IF q = <<>> THEN {} ELSE {QueryPair(segs[n]) : n \in 1..Len(segs)}

QueryNames(url) == {p.k : p \in QueryPairs(url)}

\* The tool catalog of the specification.
Catalog ==
    [ check_url            |-> [param |-> "url",    endpoint |-> "check-url"],
      check_password       |-> [param |-> "hash",   endpoint |-> "check-password"],
      check_password_range |-> [param |-> "prefix", endpoint |-> "check-password-range"],
      check_domain         |-> [param |-> "domain", endpoint |-> "check-domain"],
      check_ip             |-> [param |-> "ip",     endpoint |-> "check-ip"],
      check_email          |-> [param |-> "email",  endpoint |-> "check-email"],
      full_scan            |-> [param |-> "target", endpoint |-> "full-scan"] ]

Is2xx(st) == st \in 200..299

FinalStatusOf(c) == IF c.final = <<>> THEN 0 ELSE c.final[1].status

\* How a failure reads at the dispatcher boundary.
ErrorKind(e) ==
    IF e.fmt = "ShieldAPI %s failed (%d): %s" THEN "ApiError"
    ELSE IF e.fmt = "Failed to create payment payload" THEN "PaymentError"
    ELSE "other"

\* C1 as stated: in Paid mode an invocation whose first response was
\* payment-required has, once it settled, issued exactly one retry carrying
\* the authorization.
C1_AlwaysOneRetry ==
    ~demoMode =>
        \A c \in Settled :
            (c.resps # <<>> /\ c.resps[1] = PaymentRequired) =>
                Len(c.reqs) = 2 /\ c.reqs[2].auth

\* C1, amended: in Paid mode an invocation issues at most two requests; the
\* second is issued only after a payment-required response to the first,
\* carries the authorization and repeats the URL; a payment-required first
\* response is followed by exactly one retry when the authorization could be
\* produced and by none when it could not (the invocation then fails on the
\* payment failure), never by a direct result; a payment-required response to
\* the retry ends the invocation as a failure with no third request.
C1_SingleRetry ==
    ~demoMode =>
        \A c \in Started :
            /\ Len(c.reqs) \in {1, 2}
            /\ Len(c.resps) <= Len(c.reqs)
            /\ ~c.reqs[1].auth
            /\ Len(c.reqs) = 2 =>
                   /\ c.resps # <<>> /\ c.resps[1] = PaymentRequired
                   /\ c.reqs[2].auth
                   /\ c.reqs[2].url = c.reqs[1].url
            /\ (c.resps # <<>> /\ c.resps[1] = PaymentRequired) =>
                   \/ c.phase = "signing" /\ Len(c.reqs) = 1
                   \/ /\ c.phase = "settled" /\ c.cause = "payment" /\ Len(c.reqs) = 1
                      /\ ~c.outcome.ok
                   \/ c.phase \in {"retry", "settled"} /\ Len(c.reqs) = 2
            /\ (c.phase = "settled" /\ c.cause # "payment"
                    /\ c.resps # <<>> /\ c.resps[1] = PaymentRequired) => Len(c.reqs) = 2
            /\ (c.phase = "settled" /\ Len(c.resps) = 2 /\ c.resps[2] = PaymentRequired) =>
                   /\ ~c.outcome.ok
                   /\ c.outcome.error.status = PaymentRequired
                   /\ Len(c.reqs) = 2

\* A paid invocation whose retry was answered payment-required again has settled.
C1_Witness ==
    /\ ~demoMode
    /\ \E c \in Settled :
          /\ c.resps = <<PaymentRequired, PaymentRequired>>
          /\ Len(c.reqs) = 2 /\ c.reqs[2].auth
          /\ ~c.outcome.ok

\* C2: in Demo mode every invocation issues exactly one request, through the
\* unwrapped transport and without authorization; it never signs and never
\* retries, and a payment-required response is an ordinary failure carrying
\* that status.
C2_DemoNoRetry ==
    demoMode =>
        \A c \in Started :
            /\ c.transport = "fetch"
            /\ Len(c.reqs) = 1 /\ ~c.reqs[1].auth
            /\ c.phase \in {"first", "settled"}
            /\ c.phase = "settled" =>
                   /\ c.cause # "payment"
                   /\ Len(c.resps) <= 1
                   /\ FinalStatusOf(c) = PaymentRequired =>
                          /\ ~c.outcome.ok
                          /\ ErrorKind(c.outcome.error) = "ApiError"
                          /\ c.outcome.error.status = PaymentRequired

\* A demo invocation answered payment-required has settled as a failure.
C2_Witness ==
    /\ demoMode
    /\ \E c \in Settled :
          /\ FinalStatusOf(c) = PaymentRequired
          /\ Len(c.reqs) = 1
          /\ ~c.outcome.ok

InitComplete ==
    /\ mainPc \notin {"init", "import"}
    /\ demoMode \/ (paymentFetch = "wrapped" /\ installs = 1)
    /\ demoMode => (paymentFetch = "fetch" /\ installs = 0)

StartupSafe ==
    /\ installs <= 1
    /\ connected => InitComplete
    /\ Started # {} => connected /\ InitComplete
    /\ mainPc \in {"fatal", "exited"} => ~connected /\ Started = {}
    /\ SHIELDAPI_WALLET_PRIVATE_KEY = "invalid" => ~connected /\ Started = {}
    /\ mainPc = "exited" <=> exitCode # -1
    /\ mainPc = "exited" => exitCode # 0

\* C3: the payment transport is installed at most once; the server is
\* connected, and an invocation accepted, only after initialization completed;
\* when start-up failed no invocation is ever accepted, and the process exits
\* with a non-zero status.
C3_InitBeforeServe ==
    /\ []StartupSafe
    /\ [][(mainPc \in {"fatal", "exited"}) => (mainPc' \in {"fatal", "exited"})]_vars
    /\ (mainPc = "fatal") ~> (mainPc = "exited" /\ exitCode # 0)

\* Initialization failed on an unusable credential and the process has exited.
C3_Witness ==
    /\ SHIELDAPI_WALLET_PRIVATE_KEY = "invalid"
    /\ mainPc = "exited" /\ exitCode = 1
    /\ ~connected /\ installs = 0

\* C4: every request URL is the base URL followed by /api/{endpoint}; its
\* query holds every parameter handed to callShieldApi under its name with its
\* value, and holds demo=true exactly when the process is in Demo mode.
C4_RequestUrl ==
    \A c \in Started : \A n \in 1..Len(c.reqs) :
        LET url == c.reqs[n].url IN
        /\ UrlPath(url) = <<SHIELDAPI_URL, "/api/", Catalog[c.tool].endpoint>>
        /\ \A k \in DOMAIN c.params : [k |-> <<k>>, v |-> c.params[k]] \in QueryPairs(url)
        /\ ([k |-> <<"demo">>, v |-> TrueText] \in QueryPairs(url)) <=> demoMode
        /\ (<<"demo">> \in QueryNames(url)) <=> demoMode

\* A paid request whose value needs escaping was issued, and one in Demo mode.
C4_Witness ==
    \E c \in Started :
        /\ c.tool = "check_url"
        /\ Includes(c.args["url"], "&") /\ Includes(c.args["url"], "#")
        /\ ~demoMode
        /\ Len(c.reqs) = 2

\* C6: every request carries exactly one identifying parameter. For an
\* ordinary tool it is the tool's declared parameter with the argument's value,
\* sent to the tool's endpoint; for full_scan the request goes to full-scan and
\* carries only the key the classifier rules give for the target, never
\* 'target'.
C6_OneIdentifyingKey ==
    \A c \in Started : \A n \in 1..Len(c.reqs) :
        LET url == c.reqs[n].url
            ids == QueryNames(url) \ {<<"demo">>}
            arg == c.args[Catalog[c.tool].param]
        IN  /\ Cardinality(ids) = 1
            /\ Cardinality(QueryPairs(url)) = IF demoMode THEN 2 ELSE 1
            /\ url[3] = Catalog[c.tool].endpoint
            /\ IF c.tool = "full_scan"
               THEN /\ ids = {<<ExpectedKey(arg)>>}
                    /\ ids \subseteq {<<"email">>, <<"ip">>, <<"url">>, <<"domain">>}
                    /\ <<"target">> \notin ids
                    /\ [k |-> <<ExpectedKey(arg)>>, v |-> arg] \in QueryPairs(url)
               ELSE /\ ids = {<<Catalog[c.tool].param>>}
                    /\ [k |-> <<Catalog[c.tool].param>>, v |-> arg] \in QueryPairs(url)

\* full_scan was invoked with a URL-shaped target that holds '@': the request
\* carries email only.
C6_Witness ==
    \E c \in Started :
        /\ c.tool = "full_scan"
        /\ c.args["target"] = HttpPrefix \o <<"a", "@", "b">>
        /\ QueryNames(c.reqs[1].url) \ {<<"demo">>} = {<<"email">>}

\* C7: an invocation whose final response is not 2xx fails with an error that
\* carries the endpoint, the status and the first 200 characters of the body:
\* the whole body when it has at most 200 characters, never more than 200.
C7_ErrorBodyCut ==
    \A c \in Settled :
        (c.final # <<>> /\ ~Is2xx(c.final[1].status)) =>
            LET e == c.outcome.error
                b == c.final[1].body
            IN  /\ ~c.outcome.ok
                /\ ErrorKind(e) = "ApiError"
                /\ e.endpoint = Catalog[c.tool].endpoint
                /\ e.status = c.final[1].status
                /\ Len(e.body) <= 200
                /\ Len(e.body) = IF Len(b) <= 200 THEN Len(b) ELSE 200
                /\ \A i \in 1..Len(e.body) : e.body[i] = b[i]

\* A non-2xx response with a body longer than the cut settled an invocation.
C7_Witness ==
    \E c \in Settled :
        /\ c.final # <<>> /\ c.final[1].status = 500
        /\ Len(c.final[1].body) > 200
        /\ ~c.outcome.ok
        /\ Len(c.outcome.error.body) = 200

C9_NoFabricatedSuccess ==
    \A c \in Settled :
        /\ c.outcome.ok =>
               /\ c.cause = "response" /\ c.final # <<>>
               /\ Is2xx(c.final[1].status)
               /\ JSONparse(c.final[1].body) # <<>>
               /\ Len(c.outcome.reply.content) = 1
               /\ c.outcome.reply.content[1].type = "text"
               /\ JSONparse(c.outcome.reply.content[1].text) = JSONparse(c.final[1].body)
        /\ c.cause = "network" => ~c.outcome.ok /\ c.outcome.error = NetworkFailure
        /\ c.cause = "payment" => ~c.outcome.ok /\ c.outcome.error = PaymentFailure
        /\ (c.cause = "response" /\ ~Is2xx(FinalStatusOf(c))) =>
               /\ ~c.outcome.ok
               /\ c.outcome.error.status = FinalStatusOf(c)
        /\ (c.cause = "response" /\ Is2xx(FinalStatusOf(c))
                /\ JSONparse(c.final[1].body) = <<>>) =>
               /\ ~c.outcome.ok
               /\ c.outcome.error = JsonSyntaxError

\* A 2xx response holding a string with characters that need escaping was
\* formatted into a Reply.
C9_Witness ==
    \E c \in Settled :
        /\ c.outcome.ok
        /\ JSONparse(c.final[1].body) = <<JStr(<<"a", "\"", "\\", "\n", " ", "{">>)>>
        /\ JSONparse(c.outcome.reply.content[1].text) = JSONparse(c.final[1].body)

HasDemoFlag(url) == <<"demo">> \in QueryNames(url)

\* C10: the mode never changes; paymentFetch is assigned at most once, while
\* the server is not yet connected and no invocation exists, and never again;
\* every invocation, in flight or settled, went through the transport that is
\* installed now, and all its requests carry the process's mode; a step of one
\* invocation leaves every other invocation as it was.
C10_SharedStateFixed ==
    /\ [][ /\ demoMode' = demoMode
           /\ SHIELDAPI_URL' = SHIELDAPI_URL
           /\ paymentFetch' # paymentFetch =>
                  /\ installs = 0 /\ installs' = 1
                  /\ ~connected
                  /\ Started = {}
           /\ \A i \in Slots : calls'[i] # calls[i] =>
                  /\ paymentFetch' = paymentFetch
                  /\ \A j \in Slots \ {i} : calls'[j] = calls[j] ]_vars
    /\ [](\A c \in Started :
            /\ c.transport = paymentFetch
            /\ c.transport = "wrapped" <=> ~demoMode
            /\ \A n \in 1..Len(c.reqs) : HasDemoFlag(c.reqs[n].url) <=> demoMode)

\* Two paid invocations are in flight at once, one awaiting its first
\* response, the other its retry.
C10_Witness ==
    /\ ~demoMode
    /\ \E i \in Slots, j \in Slots :
          /\ i # j
          /\ calls[i].phase = "first" /\ calls[j].phase = "retry"
          /\ calls[i].transport = "wrapped" /\ calls[j].transport = "wrapped"

====
